---- MODULE Spec2Model ----
(***************************************************************************)
(* A model of crud.py: five Flask handlers over one PostgreSQL table,      *)
(* "students".  Every handler opens its own connection, runs one           *)
(* statement in its own transaction, and closes the connection.            *)
(*                                                                         *)
(* The database is modelled at statement granularity with PostgreSQL's     *)
(* READ COMMITTED rules: a statement sees committed rows only, a write     *)
(* waits for an in-flight transaction that holds the row or the email it   *)
(* needs, students_id_seq never hands a value out twice and is not rolled  *)
(* back.                                                                   *)
(*                                                                         *)
(* A statement is rejected in PostgreSQL's order: a string too long for    *)
(* its VARCHAR(255) column when the statement is planned (before any row   *)
(* is looked up and before the sequence is advanced), then NOT NULL, then  *)
(* the unique index on email.  psycopg2 raises the first as a DataError    *)
(* and the other two as an IntegrityError.                                 *)
(*                                                                         *)
(* Request bodies are JSON objects whose values have the documented JSON   *)
(* types (strings for name, email, course; an integer for age) or are      *)
(* null; a key may also be absent.  Bodies carrying a value of another     *)
(* JSON type, and integers beyond 32 bits, are outside the model, and so   *)
(* is a connection that breaks after it was obtained.                      *)
(***************************************************************************)
EXTENDS Integers, Sequences, FiniteSets, TLC

----------------------------------------------------------------------------
(* Bounds of the model. *)

\* The largest value students_id_seq hands out in the model.
MaxId == 2
\* The number of times the database clock advances.
MaxClock == 1

\* Request-handling threads of the Flask server.
Procs == {1, 2, 3}
\* The thread that serves requests when they arrive one after the other.
SeqProcs == {1}
\* The threads that serve any request concurrently.
ConcProcs == {1, 2}
\* When three requests race: the threads that serve POST, and the one that
\* serves PUT.
Creators == {1, 2}
Updaters == {3}

----------------------------------------------------------------------------
(* Values: JSON values of a request body, SQL values of a column. *)

\* JSON null, Python None, SQL NULL.
NULL == <<"null">>
StrV(s) == <<"str", s>>
IntV(n) == <<"int", n>>
\* A TIMESTAMP WITH TIME ZONE taken at clock reading t.
TsV(t) == <<"timestamptz", t>>

IsStr(v) == v[1] = "str"

\* The n of VARCHAR(n) for name, email and course.
VarcharLen == 255

\* A 256-character string: one more than VARCHAR(255) holds.
LongText == "xxxxxxxxxxxxxxxxxxxxxxxxxxxxxxxxxxxxxxxxxxxxxxxxxxxxxxxxxxxxxxxxxxxxxxxxxxxxxxxxxxxxxxxxxxxxxxxxxxxxxxxxxxxxxxxxxxxxxxxxxxxxxxxxxxxxxxxxxxxxxxxxxxxxxxxxxxxxxxxxxxxxxxxxxxxxxxxxxxxxxxxxxxxxxxxxxxxxxxxxxxxxxxxxxxxxxxxxxxxxxxxxxxxxxxxxxxxxxxxxxxxxxxxxxxxxxxxx"

E1 == StrV("a@x.com")
E2 == StrV("b@x.com")
Ann == StrV("Ann")
Empty == StrV("")
Long == StrV(LongText)
CS == StrV("CS")
Age22 == IntV(22)

\* The columns a request may set, in the order update_student tests them.
Fields == <<"name", "email", "age", "course">>
FieldSet == {Fields[i] : i \in 1..Len(Fields)}

\* The JSON object {} .
EmptyBody == [k \in {} |-> NULL]

\* Python's data.get(k): the value, or None when the key is absent.
Get(data, k) == IF k \in DOMAIN data THEN data[k] ELSE NULL

\* Python's "not data" for a JSON object: true of the empty object.
Falsy(data) == DOMAIN data = {}

----------------------------------------------------------------------------
(* Requests. *)

\* Bodies of POST /students when requests arrive one after the other.
CreateBodies ==
    {EmptyBody, "email" :> E1, "name" :> Ann}
    \cup {("name" :> n) @@ ("email" :> e) :
              n \in {Ann, Empty, NULL, Long}, e \in {E1, E2}}
    \cup {("name" :> Ann) @@ ("email" :> NULL)}
    \cup {("name" :> Ann) @@ ("email" :> e) @@ ("age" :> Age22) @@ ("course" :> CS) :
              e \in {E1, E2}}

\* Bodies of PUT /students/<id> when requests arrive one after the other.
UpdateBodies ==
    {EmptyBody, "nickname" :> StrV("x")}
    \cup {"name" :> v : v \in {Ann, Empty, NULL, Long}}
    \cup {"email" :> v : v \in {E1, E2, NULL}}
    \cup {"age" :> v : v \in {Age22, NULL}}
    \cup {"course" :> v : v \in {CS, NULL}}
    \cup {("age" :> Age22) @@ ("course" :> NULL), ("name" :> Ann) @@ ("course" :> CS),
          ("name" :> Empty) @@ ("email" :> E2) @@ ("age" :> NULL)}

\* Bodies of concurrent requests.
ConcCreateBodies ==
    {("name" :> Ann) @@ ("email" :> e) : e \in {E1, E2}}

ConcUpdateBodies ==
    {"email" :> v : v \in {E1, E2}}

\* The <int:student_id> of a path.
PathIds == 1..MaxId

Req(op, id, data) == [op |-> op, id |-> id, data |-> data]
NoReq == Req("none", 0, EmptyBody)

Requests ==
    {Req("create", 0, d) : d \in CreateBodies}
    \cup {Req("update", i, d) : i \in PathIds, d \in UpdateBodies}
    \cup {Req(op, i, EmptyBody) : op \in {"get", "delete"}, i \in PathIds}
    \cup {Req("list", 0, EmptyBody)}

ConcRequests ==
    {Req("create", 0, d) : d \in ConcCreateBodies}
    \cup {Req("update", i, d) : i \in PathIds, d \in ConcUpdateBodies}
    \cup {Req(op, i, EmptyBody) : op \in {"get", "delete"}, i \in PathIds}
    \cup {Req("list", 0, EmptyBody)}

\* Requests of a race between two creates and an update of the email.
RaceRequests(p) ==
    IF p \in Creators
    THEN {Req("create", 0, d) : d \in ConcCreateBodies}
    ELSE {Req("update", i, d) : i \in PathIds, d \in ConcUpdateBodies}

IsWrite(op) == op \in {"create", "update", "delete"}

----------------------------------------------------------------------------
(* State. *)

VARIABLES
    students,         \* the committed rows of table students
    students_id_seq,  \* the last value of the SERIAL column's sequence
    clock,            \* the database clock, CURRENT_TIMESTAMP
    pc,               \* where each thread is in its handler
    req,              \* the request each thread is handling
    conn,             \* each handler's connection: none, open, closed
    txn,              \* each connection's transaction
    pend,             \* the uncommitted writes of each transaction
    resp,             \* the response each handler is about to return
    hist              \* what the clients have been answered so far

vars == <<students, students_id_seq, clock, pc, req, conn, txn, pend, resp, hist>>

NoPend == [del |-> {}, add |-> {}]
Resp(status, id, body) == [status |-> status, id |-> id, body |-> body]
NoResp == Resp(0, 0, <<>>)

\* CREATE TABLE IF NOT EXISTS students on an empty database.
Init ==
    /\ students = {}
    /\ students_id_seq = 0
    /\ clock = 0
    /\ pc = [p \in Procs |-> "idle"]
    /\ req = [p \in Procs |-> NoReq]
    /\ conn = [p \in Procs |-> "none"]
    /\ txn = [p \in Procs |-> "none"]
    /\ pend = [p \in Procs |-> NoPend]
    /\ resp = [p \in Procs |-> NoResp]
    /\ hist = [issued |-> {}, removed |-> {}, creates |-> 0, deletes |-> 0]

----------------------------------------------------------------------------
(* The database. *)

Emails(rows) == {r.email : r \in rows}
Ids(rows) == {r.id : r \in rows}

\* Transactions of other connections that have written and not yet ended.
InFlight(p) == {q \in Procs \ {p} : txn[q] = "active"}

\* A row version another in-flight transaction has updated or deleted.
RowLocked(p, row) == \E q \in InFlight(p) : row \in pend[q].del

\* A unique check that looks at committed rows only.
EmailNeverInDoubt(p, e) == FALSE

\* An email another in-flight transaction has inserted, replaced or deleted:
\* the unique index makes the writer wait for that transaction to end.
EmailInDoubt(p, e) ==
    \E q \in InFlight(p) : e \in Emails(pend[q].del \cup pend[q].add)

\* A string parameter that does not fit its VARCHAR(255) column.
TooLong(v) == IsStr(v) /\ Len(v[2]) > VarcharLen

\* An id generator that takes one more than the largest id in the table.
NextValMaxPlusOne ==
    IF students = {} THEN 1
    ELSE (CHOOSE i \in Ids(students) : \A j \in Ids(students) : j <= i) + 1

\* An id generator that takes the smallest id not in the table.
NextValLowestFree ==
    CHOOSE i \in 1..(Cardinality(students) + 1) :
        /\ i \notin Ids(students)
        /\ \A j \in 1..(i - 1) : j \in Ids(students)

\* nextval('students_id_seq').
NextVal == students_id_seq + 1

\* name and email are NOT NULL.
NotNullViolated(row) == row.name = NULL \/ row.email = NULL

\* A table whose email column is not UNIQUE.
UniqueNotEnforced(row) == FALSE

\* email is UNIQUE: some other committed row holds the email.
UniqueViolated(row) ==
    \E r \in students : r.id # row.id /\ r.email = row.email

\* The row INSERT INTO students (name, email, age, course) builds at time now:
\* id and created_at take their column defaults.
InsertedRow(data, now) ==
    [id |-> NextVal, name |-> Get(data, "name"), email |-> Get(data, "email"),
     age |-> Get(data, "age"), course |-> Get(data, "course"),
     created_at |-> TsV(now)]

\* query_parts: one "column = %s" for each recognized key present, in order.
query_parts(data) ==
    LET Present(k) == k \in DOMAIN data
    IN  SelectSeq(Fields, Present)

\* params: the values of those keys, in the same order.
params(data) ==
    LET parts == query_parts(data)
    IN  [i \in 1..Len(parts) |-> data[parts[i]]]

\* UPDATE students SET <parts> applied to one row, clause by clause.
RECURSIVE SetColumns(_, _, _)
SetColumns(row, parts, values) ==
    IF parts = <<>> THEN row
    ELSE SetColumns([row EXCEPT ![Head(parts)] = Head(values)],
                    Tail(parts), Tail(values))

\* The rows WHERE id = %s selects.
RowsById(id) == {r \in students : r.id = id}

\* ORDER BY id DESC.
RECURSIVE OrderByIdDesc(_)
OrderByIdDesc(rows) ==
    IF rows = {} THEN <<>>
    ELSE LET first == CHOOSE r \in rows : \A s \in rows : r.id >= s.id
         IN  <<first>> \o OrderByIdDesc(rows \ {first})

\* ORDER BY id.
RECURSIVE OrderById(_)
OrderById(rows) ==
    IF rows = {} THEN <<>>
    ELSE LET first == CHOOSE r \in rows : \A s \in rows : r.id <= s.id
         IN  <<first>> \o OrderById(rows \ {first})

\* datetime.isoformat().
IsoFormat(ts) == <<"iso8601", ts[2]>>

\* dict(row) with created_at rendered for JSON.
Serialize(row) ==
    IF row.created_at # NULL
    THEN [row EXCEPT !.created_at = IsoFormat(@)]
    ELSE row

RECURSIVE SerializeAll(_)
SerializeAll(rows) ==
    IF rows = <<>> THEN <<>>
    ELSE <<Serialize(Head(rows))>> \o SerializeAll(Tail(rows))

----------------------------------------------------------------------------
(* Handlers. *)

Goto(p, where) == pc' = [pc EXCEPT ![p] = where]
Answer(p, r) == resp' = [resp EXCEPT ![p] = r]

\* add_student's and update_student's checks of the body before connecting.
BadRequest(r) ==
    \/ r.op = "create" /\ (Falsy(r.data) \/ "name" \notin DOMAIN r.data
                                        \/ "email" \notin DOMAIN r.data)
    \/ r.op = "update" /\ Falsy(r.data)

\* Creates that have not yet drawn their id from the sequence.
CreatesWaiting == {q \in Procs : req[q].op = "create" /\ pc[q] \in {"connect", "execute"}}

\* A request reaches its handler; the body is read and checked.
Request(p, R) ==
    /\ pc[p] = "idle"
    /\ \E r \in R :
        /\ r.op = "create" => students_id_seq + Cardinality(CreatesWaiting) < MaxId
        /\ req' = [req EXCEPT ![p] = r]
        /\ IF BadRequest(r)
           THEN Answer(p, Resp(400, 0, <<>>)) /\ Goto(p, "return")
           ELSE Goto(p, "connect") /\ UNCHANGED resp
    /\ UNCHANGED <<students, students_id_seq, clock, conn, txn, pend, hist>>

\* get_db_connection returns a connection.
get_db_connection(p) ==
    /\ pc[p] = "connect"
    /\ conn' = [conn EXCEPT ![p] = "open"]
    /\ Goto(p, "execute")
    /\ UNCHANGED <<students, students_id_seq, clock, req, txn, pend, resp, hist>>

\* get_db_connection returns None; the handler answers 500.
get_db_connection_fails(p) ==
    /\ pc[p] = "connect"
    /\ Answer(p, Resp(500, 0, <<>>))
    /\ Goto(p, "return")
    /\ UNCHANGED <<students, students_id_seq, clock, req, conn, txn, pend, hist>>

\* What the INSERT does: "data" (a parameter does not fit its column),
\* "integrity" (a constraint rejects the row) or "ok".
InsertResult(data) ==
    IF \E k \in {"name", "email", "course"} : TooLong(Get(data, k)) THEN "data"
    ELSE IF NotNullViolated(InsertedRow(data, clock)) THEN "integrity"
    ELSE IF UniqueViolated(InsertedRow(data, clock)) THEN "integrity"
    ELSE "ok"

\* The INSERT reaches the unique index on email.
InsertReachesIndex(data) ==
    /\ ~ \E k \in {"name", "email", "course"} : TooLong(Get(data, k))
    /\ ~ NotNullViolated(InsertedRow(data, clock))

\* The readings CURRENT_TIMESTAMP may give next: time does not run backwards.
Now == {t \in clock..(clock + 1) : t <= MaxClock}

\* add_student: cur.execute(INSERT ... RETURNING id).
add_student(p) ==
    /\ pc[p] = "execute" /\ req[p].op = "create"
    /\ LET data == req[p].data
           res == InsertResult(data)
       IN  /\ InsertReachesIndex(data) => ~ EmailInDoubt(p, Get(data, "email"))
           /\ students_id_seq' = IF res = "data" THEN students_id_seq ELSE NextVal
           /\ txn' = [txn EXCEPT ![p] = IF res = "ok" THEN "active" ELSE "aborted"]
           /\ \E now \in Now :
                 /\ clock' = now
                 /\ pend' = [pend EXCEPT ![p] =
                       IF res = "ok" THEN [del |-> {}, add |-> {InsertedRow(data, now)}]
                       ELSE NoPend]
           /\ Goto(p, CASE res = "ok" -> "commit"
                        [] res = "integrity" -> "except_integrity"
                        [] OTHER -> "except_other")
    /\ UNCHANGED <<students, req, conn, resp, hist>>

\* get_all_students: SELECT ... ORDER BY id, then the rows as a JSON list.
get_all_students(p) ==
    /\ pc[p] = "execute" /\ req[p].op = "list"
    /\ txn' = [txn EXCEPT ![p] = "active"]
    /\ Answer(p, Resp(200, 0, SerializeAll(OrderById(students))))
    /\ Goto(p, "close")
    /\ UNCHANGED <<students, students_id_seq, clock, req, conn, pend, hist>>

\* get_student: SELECT ... WHERE id = %s, then the row or 404.
get_student(p) ==
    /\ pc[p] = "execute" /\ req[p].op = "get"
    /\ txn' = [txn EXCEPT ![p] = "active"]
    /\ LET rows == RowsById(req[p].id)
       IN  IF rows # {}
           THEN Answer(p, Resp(200, req[p].id, <<Serialize(CHOOSE r \in rows : TRUE)>>))
           ELSE Answer(p, Resp(404, req[p].id, <<>>))
    /\ Goto(p, "close")
    /\ UNCHANGED <<students, students_id_seq, clock, req, conn, pend, hist>>

\* A full-row update: every column is set, an omitted key to NULL.
UpdatedRowAllColumns(old, data) ==
    [old EXCEPT !.name = Get(data, "name"), !.email = Get(data, "email"),
                !.age = Get(data, "age"), !.course = Get(data, "course")]

\* The row the UPDATE writes in place of old.
UpdatedRow(old, data) == SetColumns(old, query_parts(data), params(data))

\* What the UPDATE does before it reaches the unique index: "none" (no
\* recognized field, no statement), "data", "norow" (rowcount 0),
\* "integrity" (NOT NULL), "same" (written, email unchanged) or "index"
\* (written, the new email goes to the unique index).
UpdateResult(id, data) ==
    IF query_parts(data) = <<>> THEN "none"
    ELSE IF \E i \in 1..Len(params(data)) : TooLong(params(data)[i]) THEN "data"
    ELSE IF RowsById(id) = {} THEN "norow"
    ELSE LET old == CHOOSE r \in RowsById(id) : TRUE
             new == UpdatedRow(old, data)
         IN  IF NotNullViolated(new) THEN "integrity"
             ELSE IF new.email = old.email THEN "same"
             ELSE "index"

\* update_student: build the SET list, cur.execute(UPDATE ... WHERE id = %s).
update_student(p) ==
    /\ pc[p] = "execute" /\ req[p].op = "update"
    /\ LET id == req[p].id
           data == req[p].data
           res == UpdateResult(id, data)
           old == CHOOSE r \in RowsById(id) : TRUE
       IN  /\ res \in {"integrity", "same", "index"} => ~ RowLocked(p, old)
           /\ txn' = [txn EXCEPT ![p] =
                         CASE res = "none" -> "none"
                           [] res \in {"data", "integrity"} -> "aborted"
                           [] OTHER -> "active"]
           /\ pend' = [pend EXCEPT ![p] =
                          IF res \in {"same", "index"}
                          THEN [del |-> {old}, add |-> {UpdatedRow(old, data)}]
                          ELSE NoPend]
           /\ IF res = "none"
              THEN Answer(p, Resp(400, id, <<>>))
              ELSE UNCHANGED resp
           /\ Goto(p, CASE res = "none" -> "close"
                        [] res = "data" -> "except_other"
                        [] res = "norow" -> "rollback_404"
                        [] res = "integrity" -> "except_integrity"
                        [] res = "same" -> "commit"
                        [] OTHER -> "index")
    /\ UNCHANGED <<students, students_id_seq, clock, req, conn, hist>>

\* The row version an UPDATE in progress has written.
NewRow(p) == CHOOSE r \in pend[p].add : TRUE

\* The UPDATE's new email reaches the unique index.
UpdateIndex(p) ==
    /\ pc[p] = "index"
    /\ ~ EmailInDoubt(p, NewRow(p).email)
    /\ IF UniqueViolated(NewRow(p))
       THEN /\ txn' = [txn EXCEPT ![p] = "aborted"]
            /\ pend' = [pend EXCEPT ![p] = NoPend]
            /\ Goto(p, "except_integrity")
       ELSE /\ Goto(p, "commit")
            /\ UNCHANGED <<txn, pend>>
    /\ UNCHANGED <<students, students_id_seq, clock, req, conn, resp, hist>>

\* Two UPDATEs each wait at the unique index for the other's transaction.
Deadlocked(p, q) ==
    /\ p # q /\ pc[p] = "index" /\ pc[q] = "index"
    /\ NewRow(p).email \in Emails(pend[q].del \cup pend[q].add)
    /\ NewRow(q).email \in Emails(pend[p].del \cup pend[p].add)

\* PostgreSQL's deadlock detector aborts one of them.
DeadlockDetected(p) ==
    /\ \E q \in Procs : Deadlocked(p, q)
    /\ txn' = [txn EXCEPT ![p] = "aborted"]
    /\ pend' = [pend EXCEPT ![p] = NoPend]
    /\ Goto(p, "except_other")
    /\ UNCHANGED <<students, students_id_seq, clock, req, conn, resp, hist>>

\* A delete that commits without looking at cur.rowcount.
AfterDeleteNoRowcount(rows) == "commit"

\* delete_student: cur.rowcount == 0 rolls back and answers 404.
AfterDelete(rows) == IF rows = {} THEN "rollback_404" ELSE "commit"

\* delete_student: cur.execute(DELETE ... WHERE id = %s).
delete_student(p) ==
    /\ pc[p] = "execute" /\ req[p].op = "delete"
    /\ LET rows == RowsById(req[p].id)
       IN  /\ \A r \in rows : ~ RowLocked(p, r)
           /\ pend' = [pend EXCEPT ![p] = [del |-> rows, add |-> {}]]
           /\ Goto(p, AfterDelete(rows))
    /\ txn' = [txn EXCEPT ![p] = "active"]
    /\ UNCHANGED <<students, students_id_seq, clock, req, conn, resp, hist>>

\* The table after a transaction's writes are committed.
Committed(rows, w) == (rows \ w.del) \cup w.add

\* The response of the success path.
Success(r, w) ==
    IF r.op = "create"
    THEN Resp(201, (CHOOSE row \in w.add : TRUE).id, <<>>)
    ELSE Resp(200, r.id, <<>>)

\* conn.commit() and the success response.
Commit(p) ==
    /\ pc[p] = "commit"
    /\ students' = Committed(students, pend[p])
    /\ txn' = [txn EXCEPT ![p] = "committed"]
    /\ pend' = [pend EXCEPT ![p] = NoPend]
    /\ Answer(p, Success(req[p], pend[p]))
    /\ Goto(p, "close")
    /\ UNCHANGED <<students_id_seq, clock, req, conn, hist>>

\* conn.rollback() and an error response.
Rollback(p, status) ==
    /\ txn' = [txn EXCEPT ![p] = "rolledback"]
    /\ pend' = [pend EXCEPT ![p] = NoPend]
    /\ Answer(p, Resp(status, req[p].id, <<>>))
    /\ Goto(p, "close")
    /\ UNCHANGED <<students, students_id_seq, clock, req, conn, hist>>

\* A 404 path that answers without conn.rollback().
NotFoundWithoutRollback(p) ==
    /\ pc[p] = "rollback_404"
    /\ Answer(p, Resp(404, req[p].id, <<>>))
    /\ Goto(p, "close")
    /\ UNCHANGED <<students, students_id_seq, clock, req, conn, txn, pend, hist>>

\* update_student, delete_student: cur.rowcount == 0.
RollbackNotFound(p) == pc[p] = "rollback_404" /\ Rollback(p, 404)

\* except psycopg2.IntegrityError.
ExceptIntegrityError(p) == pc[p] = "except_integrity" /\ Rollback(p, 409)

\* except Exception.
ExceptException(p) == pc[p] = "except_other" /\ Rollback(p, 500)

\* finally: conn.close(); an open transaction is discarded by the server.
Close(p) ==
    /\ pc[p] = "close"
    /\ conn' = [conn EXCEPT ![p] = "closed"]
    /\ txn' = [txn EXCEPT ![p] = IF @ \in {"active", "aborted"} THEN "discarded" ELSE @]
    /\ pend' = [pend EXCEPT ![p] = NoPend]
    /\ Goto(p, "return")
    /\ UNCHANGED <<students, students_id_seq, clock, req, resp, hist>>

\* The answers the clients have seen, with this one added.
Recorded(h, r, a) ==
    CASE r.op = "create" /\ a.status = 201 ->
            [h EXCEPT !.issued = @ \cup {a.id}, !.creates = @ + 1]
      [] r.op = "delete" /\ a.status = 200 ->
            [h EXCEPT !.removed = @ \cup {a.id}, !.deletes = @ + 1]
      [] OTHER -> h

\* The handler returns; the client receives the response.
Return(p) ==
    /\ pc[p] = "return"
    /\ hist' = Recorded(hist, req[p], resp[p])
    /\ req' = [req EXCEPT ![p] = NoReq]
    /\ resp' = [resp EXCEPT ![p] = NoResp]
    /\ conn' = [conn EXCEPT ![p] = "none"]
    /\ txn' = [txn EXCEPT ![p] = "none"]
    /\ Goto(p, "idle")
    /\ UNCHANGED <<students, students_id_seq, clock, pend>>

\* One step of the handler thread p.
Handle(p) ==
    \/ get_db_connection(p)
    \/ add_student(p)
    \/ get_all_students(p)
    \/ get_student(p)
    \/ update_student(p)
    \/ UpdateIndex(p)
    \/ delete_student(p)
    \/ Commit(p)
    \/ RollbackNotFound(p)
    \/ ExceptIntegrityError(p)
    \/ ExceptException(p)
    \/ Close(p)
    \/ Return(p)

\* Requests served one after the other, the database reachable.
Next ==
    \/ \E p \in SeqProcs : Request(p, Requests)
    \/ \E p \in SeqProcs : Handle(p)

Spec == Init /\ [][Next]_vars

\* Requests served concurrently; the database may refuse a connection.
NextConc ==
    \/ \E p \in ConcProcs : Request(p, ConcRequests)
    \/ \E p \in ConcProcs : Handle(p)
    \/ \E p \in ConcProcs : get_db_connection_fails(p)
    \/ \E p \in ConcProcs : DeadlockDetected(p)

SpecConc == Init /\ [][NextConc]_vars

\* Two threads serving creates race with a thread serving updates.
NextRace ==
    \/ \E p \in Procs : Request(p, RaceRequests(p))
    \/ \E p \in Procs :
          \/ get_db_connection(p)
          \/ add_student(p)
          \/ update_student(p)
          \/ UpdateIndex(p)
          \/ Commit(p)
          \/ RollbackNotFound(p)
          \/ ExceptIntegrityError(p)
          \/ Close(p)
          \/ Return(p)

SpecRace == Init /\ [][NextRace]_vars

----------------------------------------------------------------------------
(* Properties.  A handler answers in the step that sets its response; when *)
(* requests arrive one after the other, the table before that step is the  *)
(* table the request found and the table after it is the table the request *)
(* leaves.                                                                 *)

\* Thread p produces its response in this step.
Answers(p) == resp[p] = NoResp /\ resp'[p] # NoResp

\* The table changes in no step other than one that produces a response.
QuietOtherwise == (\A p \in Procs : ~ Answers(p)) => students' = students

\* Every string of the body fits its VARCHAR(255) column.
FitsColumns(data) == \A k \in {"name", "email", "course"} : ~ TooLong(Get(data, k))

HasNameAndEmail(data) == "name" \in DOMAIN data /\ "email" \in DOMAIN data

\* p answers a create whose email a student in the table holds.
AnswersDuplicateCreate(p) ==
    /\ Answers(p) /\ req'[p].op = "create"
    /\ Get(req'[p].data, "email") \in Emails(students)

AnswersFreshCreate(p) ==
    /\ Answers(p) /\ req'[p].op = "create"
    /\ HasNameAndEmail(req'[p].data)
    /\ req'[p].data["email"] \notin Emails(students)

\* The create answers 201, adds exactly one row, and its id was returned by
\* no earlier create and is the id of the row added.
CreatedOne(p) ==
    /\ resp'[p].status = 201
    /\ resp'[p].id \notin hist.issued
    /\ \E row \in students' \ students :
          /\ students' = students \cup {row}
          /\ row.id = resp'[p].id
          /\ row.id \notin Ids(students)
          /\ row.name = req'[p].data["name"]
          /\ row.email = req'[p].data["email"]

C3_UpdateTouchesSuppliedFieldsOnly ==
    [][/\ QuietOtherwise
       /\ \A p \in Procs :
            Answers(p) /\ req'[p].op = "update" /\ resp'[p].status = 200 =>
              /\ DOMAIN req[p].data \cap FieldSet # {}
              /\ \E old \in students, new \in students' :
                    /\ old.id = req[p].id /\ new.id = old.id
                    /\ students' = (students \ {old}) \cup {new}
                    /\ new.created_at = old.created_at
                    /\ \A k \in FieldSet :
                          new[k] = IF k \in DOMAIN req[p].data
                                   THEN req[p].data[k] ELSE old[k]]_vars

\* An update of age alone to null has succeeded on a student with a course.
C3_Witness ==
    \E p \in Procs :
        /\ pc[p] = "return" /\ req[p].op = "update" /\ resp[p].status = 200
        /\ req[p].data = ("age" :> NULL)
        /\ \E r \in students : r.id = req[p].id /\ r.age = NULL /\ r.course = CS

\* C4: once a delete of an id has answered 200, no later list shows that id,
\* every later get of it answers 404, and a later delete of it answers 404.
C4_DeletedStaysDeleted ==
    [][\A p \in Procs : Answers(p) =>
          /\ req'[p].op = "list" =>
                \A i \in 1..Len(resp'[p].body) : resp'[p].body[i].id \notin hist.removed
          /\ req'[p].op \in {"get", "delete"} /\ req'[p].id \in hist.removed =>
                resp'[p].status = 404]_vars

\* A get of a deleted id has been answered 404 after a later create.
C4_Witness ==
    \E p \in Procs :
        /\ pc[p] = "return" /\ req[p].op = "get" /\ resp[p].status = 404
        /\ req[p].id \in hist.removed
        /\ \E r \in students : r.id > req[p].id

\* p answers an update with a recognized field, or a delete, of an id that
\* has no row.
AnswersMissingId(p) ==
    /\ Answers(p) /\ RowsById(req'[p].id) = {}
    /\ \/ req'[p].op = "delete"
       \/ req'[p].op = "update" /\ DOMAIN req'[p].data \cap FieldSet # {}

C6_ListAllAscending ==
    [][\A p \in Procs : Answers(p) /\ req'[p].op = "list" =>
          LET body == resp'[p].body
          IN  /\ resp'[p].status = 200
              /\ Len(body) = Cardinality(students)
              /\ \A r \in students : \E i \in 1..Len(body) :
                    /\ body[i].id = r.id
                    /\ \A k \in FieldSet : body[i][k] = r[k]
              /\ \A i, j \in 1..Len(body) : i < j => body[i].id < body[j].id
              /\ hist.deletes = 0 => Len(body) = hist.creates
              /\ students = {} => body = <<>>]_vars

\* A list of two students has been answered before any delete.
C6_Witness ==
    \E p \in Procs :
        /\ pc[p] = "return" /\ req[p].op = "list"
        /\ Len(resp[p].body) = 2 /\ hist.deletes = 0

\* The write p answers would give two students the same email.
WouldShareEmail(p) ==
    \/ /\ req'[p].op = "create"
       /\ Get(req'[p].data, "email") \in Emails(students)
    \/ /\ req'[p].op = "update"
       /\ "email" \in DOMAIN req'[p].data
       /\ \E r, o \in students :
             r.id = req'[p].id /\ o.id # r.id /\ o.email = req'[p].data["email"]

\* The write p answers has name and email present and not null, strings that
\* fit their columns and, for an update, a row to change.
Acceptable(p) ==
    /\ FitsColumns(req'[p].data)
    /\ \A k \in {"name", "email"} : k \in DOMAIN req'[p].data => req'[p].data[k] # NULL
    /\ req'[p].op = "create" => HasNameAndEmail(req'[p].data)
    /\ req'[p].op = "update" => RowsById(req'[p].id) # {}

\* C7 as stated: a create or an update answers 409 exactly when the write
\* would give two students the same email, never for another rejection by
\* the database (a null name or email is answered 500), and in both cases
\* the table is unchanged.
C7_AsStated ==
    [][\A p \in Procs : Answers(p) /\ req'[p].op \in {"create", "update"} =>
          /\ resp'[p].status = 409 => WouldShareEmail(p)
          /\ WouldShareEmail(p) /\ Acceptable(p) => resp'[p].status = 409
          /\ resp'[p].status \in {409, 500} => students' = students]_vars

\* C8 as stated: every stored student has a name that is neither null nor
\* the empty string.
C8_AsStated ==
    \A r \in students : r.name # NULL /\ r.name # Empty

\* C9: for every create, update and delete that obtains a connection, the
\* transaction is ended before the connection is closed and the connection
\* is closed before the handler returns; a commit happens only on the path
\* that answers 200 or 201, every path that answers 404, 409 or 500 after a
\* statement rolls back first, and no connection is left open.
C9_TransactionThenCloseThenReturn ==
    \A p \in Procs :
        /\ pc[p] = "idle" => conn[p] = "none"
        /\ IsWrite(req[p].op) =>
            /\ pc[p] = "close" =>
                  /\ conn[p] = "open"
                  /\ txn[p] \in {"none", "committed", "rolledback"}
                  /\ txn[p] = "none" => resp[p].status = 400
            /\ pc[p] = "return" =>
                  /\ conn[p] \in {"none", "closed"}
                  /\ conn[p] = "none" => txn[p] = "none"
                  /\ conn[p] = "closed" =>
                        /\ txn[p] \in {"none", "committed", "rolledback"}
                        /\ txn[p] = "committed" <=> resp[p].status \in {200, 201}
                        /\ resp[p].status \in {404, 409, 500} => txn[p] = "rolledback"

\* An update is about to return 409 with its transaction rolled back and its
\* connection closed, while another request holds its own open connection.
C9_Witness ==
    \E p, q \in Procs :
        /\ pc[p] = "return" /\ req[p].op = "update" /\ resp[p].status = 409
        /\ txn[p] = "rolledback" /\ conn[p] = "closed"
        /\ q # p /\ conn[q] = "open"

\* No two committed students share an email.
EmailsUnique == \A r, o \in students : r.email = o.email => r = o

\* Two creates in flight on their own connections carry the same email and
\* both have their answer.
RacingCreates(p, q) ==
    /\ p # q /\ req[p].op = "create" /\ req[q].op = "create"
    /\ req[p].data["email"] = req[q].data["email"]
    /\ conn[p] # "none" /\ conn[q] # "none"
    /\ resp[p] # NoResp /\ resp[q] # NoResp

====
